---- MODULE Spec2Model ----
(***************************************************************************)
(* Model of nshmdb/nshmdb.py: the NSHMDB class, an SQLite store of fault   *)
(* geometry.  The five tables are the state; insert_parent, insert_fault   *)
(* and add_fault_to_rupture write them through a connection that the       *)
(* caller supplies and commits; get_fault and get_rupture_faults read them *)
(* and fold the rows into Fault / FaultPlane objects.                      *)
(*                                                                         *)
(* Tables with an INTEGER PRIMARY KEY (parent_fault, fault, rupture) are   *)
(* sets of rows.  fault_plane and rupture_faults are sequences of rows in  *)
(* rowid order, which is the order SQLite scans them in.  A fault row has  *)
(* four columns, as get_fault unpacks it; insert_fault names three of      *)
(* them and the fourth stays NULL.                                         *)
(*                                                                         *)
(* The readers open a connection of their own, so the tables are the store *)
(* with every finished loader call committed by the caller.                *)
(***************************************************************************)
EXTENDS Integers, Sequences, FiniteSets, TLC

VARIABLES
    parent_fault,    \* set of rows [parent_id, name]
    fault,           \* set of rows [fault_id, name, parent_id, tect_type]
    fault_plane,     \* sequence of rows [id, top_left_lat, ..., rake, fault_id]
    rupture,         \* set of rows [rupture_id]
    rupture_faults,  \* sequence of rows [rupture_id, fault_id]
    inserted,        \* history: fault_id -> the planes handed to insert_fault, in call order
    ret              \* the last call: its name, its arguments and its outcome;
                     \* for a writer, `before`: whether the id was "absent", or
                     \* written with the "same" or with "other" values

vars == <<parent_fault, fault, fault_plane, rupture, rupture_faults, inserted, ret>>

----------------------------------------------------------------------------
(* Bounds of the model. *)

\* longest fault.planes handed to one insert_fault call
MaxPlanes == 2

\* most rows the fault_plane table grows to
MaxPlaneRows == 3

\* most rows the rupture_faults table grows to
MaxBindings == 2

----------------------------------------------------------------------------
(* The values the callers draw their arguments from. *)

ParentIds == {1, 2}

FaultIds == {10, 11}

RuptureIds == {5, 6}

\* The rupture the bulk load binds faults to, and the parent it inserts; the
\* other rupture id and parent id stay unwritten.
LoadedRuptureIds == {5}

LoadedParentIds == {1}

\* The parent faults of the rupture scenarios, each under its one name.
ParentNameOf == (1 :> "AlpineFault") @@ (2 :> "Hope")

ParentNames == {"AlpineFault", "Hope"}

FaultNames == {"Alpine: Caswell", "Hope: Conway"}

\* Python's None, and SQL's NULL for a column no INSERT names.
None == "None"

\* A call that returned normally.
NoError == "none"

\* A plane whose top edge and bottom edge are each at one depth.
PlaneFlat ==
    [corners |-> << <<-43, 170, 0>>, <<-43, 171, 0>>, <<-44, 171, 10>>, <<-44, 170, 10>> >>,
     rake |-> 90]

\* A plane whose top-right and bottom-right corners are deeper than the left ones.
PlaneTilted ==
    [corners |-> << <<-41, 173, 0>>, <<-41, 174, 2>>, <<-42, 174, 12>>, <<-42, 173, 10>> >>,
     rake |-> 45]

Planes == {PlaneFlat, PlaneTilted}

\* In the rupture scenarios fault 10 is a fault of flat planes and fault 11 a
\* fault of tilted planes, so a plane read back tells which fault it is of.
PlanesOf == (10 :> {PlaneFlat}) @@ (11 :> {PlaneTilted})

\* All sequences over S of length at most n.
SeqUpTo(S, n) == UNION {[1..k -> S] : k \in 0..n}

\* nshmdb.fault.Fault(name, tect_type, planes)
Fault(name, tect_type, planes) ==
    [name |-> name, tect_type |-> tect_type, planes |-> planes]

\* nshmdb.fault.FaultPlane(corners, rake)
FaultPlane(corners, rake) == [corners |-> corners, rake |-> rake]

FaultInputs(names, planes) ==
    {Fault(n, None, ps) : n \in names, ps \in SeqUpTo(planes, MaxPlanes)}

----------------------------------------------------------------------------
(* The store. *)

\* create(): the schema script leaves five empty tables.
Init ==
    /\ parent_fault = {}
    /\ fault = {}
    /\ fault_plane = <<>>
    /\ rupture = {}
    /\ rupture_faults = <<>>
    /\ inserted = [f \in FaultIds |-> <<>>]
    /\ ret = [op |-> "create", raised |-> NoError]

\* InsertOrReplace leaving the conflicting row in place.
InsertKeepingOld(table, key, row) == table \cup {row}

\* INSERT OR REPLACE on a table with primary key `key`: the conflicting row
\* is deleted, the new row is written.
InsertOrReplace(table, key, row) ==
    {r \in table : r[key] # row[key]} \cup {row}

\* fault_plane.id is the rowid: one more than the largest rowid in the table.
NextPlaneId ==
    IF fault_plane = <<>> THEN 1 ELSE fault_plane[Len(fault_plane)].id + 1

\* PlaneRow with bottom_depth read from the third corner instead of the last.
PlaneRowThirdCorner(id, plane, fault_id) ==
    [id               |-> id,
     top_left_lat     |-> plane.corners[1][1],
     top_left_lon     |-> plane.corners[1][2],
     top_right_lat    |-> plane.corners[2][1],
     top_right_lon    |-> plane.corners[2][2],
     bottom_right_lat |-> plane.corners[3][1],
     bottom_right_lon |-> plane.corners[3][2],
     bottom_left_lat  |-> plane.corners[4][1],
     bottom_left_lon  |-> plane.corners[4][2],
     top_depth        |-> plane.corners[1][3],
     bottom_depth     |-> plane.corners[3][3],
     rake             |-> plane.rake,
     fault_id         |-> fault_id]

\* The column values insert_fault binds for one plane: the (lat, lon) of the
\* four corners row by row, the depth of the first corner, the depth of the
\* last corner, the rake and the fault id.
PlaneRow(id, plane, fault_id) ==
    [id               |-> id,
     top_left_lat     |-> plane.corners[1][1],
     top_left_lon     |-> plane.corners[1][2],
     top_right_lat    |-> plane.corners[2][1],
     top_right_lon    |-> plane.corners[2][2],
     bottom_right_lat |-> plane.corners[3][1],
     bottom_right_lon |-> plane.corners[3][2],
     bottom_left_lat  |-> plane.corners[4][1],
     bottom_left_lon  |-> plane.corners[4][2],
     top_depth        |-> plane.corners[1][3],
     bottom_depth     |-> plane.corners[4][3],
     rake             |-> plane.rake,
     fault_id         |-> fault_id]

\* The rows the loop over fault.planes inserts, one per plane, in order.
PlaneRows(first_id, planes, fault_id) ==
    [i \in 1..Len(planes) |-> PlaneRow(first_id + i - 1, planes[i], fault_id)]

\* What the table held for the key of `row` before a write: nothing, that
\* very row, or a row of other values.
Before(table, key, row) ==
    IF row \in table THEN "same"
    ELSE IF \E r \in table : r[key] = row[key] THEN "other"
    ELSE "absent"

\* connection(): sqlite3.connect leaves PRAGMA foreign_keys at SQLite's
\* default, off, and no statement of the class turns it on: the REFERENCES
\* clauses of the schema are parsed and never checked.
foreign_keys == FALSE

\* What a statement writing a row whose reference `resolves` raises.
ForeignKeyCheck(resolves) ==
    IF foreign_keys /\ ~resolves THEN "IntegrityError" ELSE NoError

insert_parent(parent_id, parent_name) ==
    /\ parent_fault' = InsertOrReplace(parent_fault, "parent_id",
                                       [parent_id |-> parent_id, name |-> parent_name])
    /\ ret' = [op |-> "insert_parent", parent_id |-> parent_id, name |-> parent_name,
               before |-> Before(parent_fault, "parent_id",
                                 [parent_id |-> parent_id, name |-> parent_name]),
               raised |-> NoError]
    /\ UNCHANGED <<fault, fault_plane, rupture, rupture_faults, inserted>>

insert_fault(fault_id, parent_id, f) ==
    LET raised == ForeignKeyCheck(\E p \in parent_fault : p.parent_id = parent_id)
        ok == raised = NoError
    IN  /\ Len(fault_plane) + Len(f.planes) <= MaxPlaneRows
        /\ fault' = IF ok
                     THEN InsertOrReplace(fault, "fault_id",
                                          [fault_id |-> fault_id, name |-> f.name,
                                           parent_id |-> parent_id, tect_type |-> None])
                     ELSE fault
        /\ fault_plane' = IF ok
                           THEN fault_plane \o PlaneRows(NextPlaneId, f.planes, fault_id)
                           ELSE fault_plane
        /\ inserted' = IF ok
                        THEN [inserted EXCEPT ![fault_id] = @ \o f.planes]
                        ELSE inserted
        /\ ret' = [op |-> "insert_fault", fault_id |-> fault_id, parent_id |-> parent_id,
                   name |-> f.name,
                   before |-> Before(fault, "fault_id",
                                     [fault_id |-> fault_id, name |-> f.name,
                                      parent_id |-> parent_id, tect_type |-> None]),
                   raised |-> raised]
        /\ UNCHANGED <<parent_fault, rupture, rupture_faults>>

add_fault_to_rupture(rupture_id, fault_id) ==
    LET raised == ForeignKeyCheck(\E r \in fault : r.fault_id = fault_id)
    IN  /\ Len(rupture_faults) < MaxBindings
        /\ rupture' = InsertOrReplace(rupture, "rupture_id", [rupture_id |-> rupture_id])
        /\ rupture_faults' = IF raised = NoError
                              THEN Append(rupture_faults,
                                          [rupture_id |-> rupture_id, fault_id |-> fault_id])
                              ELSE rupture_faults
        /\ ret' = [op |-> "add_fault_to_rupture", rupture_id |-> rupture_id,
                   fault_id |-> fault_id,
                   before |-> Before(rupture, "rupture_id", [rupture_id |-> rupture_id]),
                   raised |-> raised]
        /\ UNCHANGED <<parent_fault, fault, fault_plane, inserted>>

----------------------------------------------------------------------------
(* The readers. *)

\* qcore.coordinates.wgs_depth_to_nztm: an order-preserving, pointwise map of
\* (lat, lon, depth) to (x, y, depth).  The projection is outside the class;
\* an injective linear map stands for it.
wgs_depth_to_nztm(corners) ==
    [i \in 1..Len(corners) |->
        <<100 * corners[i][1] + corners[i][2],
          80 * corners[i][2] - corners[i][1],
          corners[i][3]>>]

\* The corners array both readers build from a row: the top two corners at
\* top_depth, the bottom two at bottom_depth, clockwise from top-left.
CornersOfRow(row) ==
    << <<row.top_left_lat, row.top_left_lon, row.top_depth>>,
       <<row.top_right_lat, row.top_right_lon, row.top_depth>>,
       <<row.bottom_right_lat, row.bottom_right_lon, row.bottom_depth>>,
       <<row.bottom_left_lat, row.bottom_left_lon, row.bottom_depth>> >>

PlaneOfRow(row) == FaultPlane(wgs_depth_to_nztm(CornersOfRow(row)), row.rake)

\* A sequence back to front.
Reverse(seq) == [i \in 1..Len(seq) |-> seq[Len(seq) + 1 - i]]

\* SelectPlanes giving the newest row first.
SelectPlanesNewestFirst(fault_id) ==
    Reverse(SelectSeq(fault_plane, LAMBDA r : r.fault_id = fault_id))

\* SELECT * from fault_plane where fault_id = ?  (a scan in rowid order)
SelectPlanes(fault_id) == SelectSeq(fault_plane, LAMBDA r : r.fault_id = fault_id)

\* SELECT * from fault where fault_id = ?
SelectFault(fault_id) == {r \in fault : r.fault_id = fault_id}

\* get_fault_result failing as soon as the fault has no plane row.
get_fault_result_needs_planes(fault_id) ==
    LET rows == SelectSeq(fault_plane, LAMBDA r : r.fault_id = fault_id)
        planes == [i \in 1..Len(rows) |->
                      FaultPlane(wgs_depth_to_nztm(CornersOfRow(rows[i])), rows[i].rake)]
        found == {r \in fault : r.fault_id = fault_id}
    IN  IF found = {} \/ rows = <<>>
        THEN [op |-> "get_fault", fault_id |-> fault_id,
              raised |-> "TypeError", value |-> None]
        ELSE [op |-> "get_fault", fault_id |-> fault_id,
              raised |-> NoError,
              value |-> Fault((CHOOSE r \in found : TRUE).name, None, planes)]

\* get_fault: the planes of the fault, then the fault row for its name.
\* fetchone() gives None when there is no fault row, and unpacking None
\* raises TypeError.
get_fault_result(fault_id) ==
    LET rows == SelectPlanes(fault_id)
        planes == [i \in 1..Len(rows) |-> PlaneOfRow(rows[i])]
        found == SelectFault(fault_id)
    IN  IF found = {}
        THEN [op |-> "get_fault", fault_id |-> fault_id,
              raised |-> "TypeError", value |-> None]
        ELSE [op |-> "get_fault", fault_id |-> fault_id,
              raised |-> NoError,
              value |-> Fault((CHOOSE r \in found : TRUE).name, None, planes)]

get_fault(fault_id) ==
    /\ ret' = get_fault_result(fault_id)
    /\ UNCHANGED <<parent_fault, fault, fault_plane, rupture, rupture_faults, inserted>>

\* The ways SQLite may nest the loops of the join: scan fault_plane and probe
\* rupture_faults, or scan rupture_faults and probe fault_plane.  The query
\* names no order within one parent_id, so either is a result the query may
\* give.
JoinPlans == {"plane_outer", "binding_outer"}

\* A set as a sequence, in some fixed order.
RECURSIVE SetToSeq(_)
SetToSeq(S) ==
    IF S = {} THEN <<>>
    ELSE LET x == CHOOSE y \in S : TRUE IN <<x>> \o SetToSeq(S \ {x})

\* The k-th pair (i, j) of a fault_plane index and a rupture_faults index in
\* the loop order of the plan.
JoinPair(plan, k) ==
    LET n == Len(fault_plane)
        m == Len(rupture_faults)
    IN  IF plan = "plane_outer"
        THEN <<((k - 1) \div m) + 1, ((k - 1) % m) + 1>>
        ELSE <<((k - 1) % n) + 1, ((k - 1) \div n) + 1>>

\* JoinMatches selecting f.name where the query selects p.name.
JoinMatchesFaultName(fs, rf, rupture_id) ==
    IF fs.fault_id = rf.fault_id /\ rf.rupture_id = rupture_id
    THEN SetToSeq({fs @@ [parent_id |-> f.parent_id, parent_name |-> f.name] :
                     f \in {g \in fault :
                              /\ g.fault_id = fs.fault_id
                              /\ \E q \in parent_fault : q.parent_id = g.parent_id}})
    ELSE <<>>

\* JoinMatches without the WHERE clause.
JoinMatchesAnyRupture(fs, rf, rupture_id) ==
    IF fs.fault_id = rf.fault_id
    THEN SetToSeq({fs @@ [parent_id |-> p.parent_id, parent_name |-> p.name] :
                     p \in {q \in parent_fault :
                              \E f \in fault : /\ f.fault_id = fs.fault_id
                                               /\ f.parent_id = q.parent_id}})
    ELSE <<>>

\* The result rows a pair gives: fs.*, p.parent_id, p.name for every fault row
\* f and parent row p with
\*   fs.fault_id = rf.fault_id, fs.fault_id = f.fault_id,
\*   f.parent_id = p.parent_id, rf.rupture_id = ?
JoinMatches(fs, rf, rupture_id) ==
    IF fs.fault_id = rf.fault_id /\ rf.rupture_id = rupture_id
    THEN SetToSeq({fs @@ [parent_id |-> p.parent_id, parent_name |-> p.name] :
                     p \in {q \in parent_fault :
                              \E f \in fault : /\ f.fault_id = fs.fault_id
                                               /\ f.parent_id = q.parent_id}})
    ELSE <<>>

RECURSIVE JoinFrom(_, _, _)
JoinFrom(plan, rupture_id, k) ==
    IF k > Len(fault_plane) * Len(rupture_faults) THEN <<>>
    ELSE LET ij == JoinPair(plan, k)
         IN  JoinMatches(fault_plane[ij[1]], rupture_faults[ij[2]], rupture_id)
                 \o JoinFrom(plan, rupture_id, k + 1)

\* OrderByParent without the ORDER BY clause.
OrderAsJoined(rows) == rows

\* ORDER BY f.parent_id: the rows by ascending parent_id, rows of one
\* parent_id in the order the join gave them.
RECURSIVE OrderByParent(_)
OrderByParent(rows) ==
    IF rows = <<>> THEN <<>>
    ELSE LET ids == {rows[i].parent_id : i \in 1..Len(rows)}
             lo == CHOOSE a \in ids : \A b \in ids : a <= b
         IN  SelectSeq(rows, LAMBDA r : r.parent_id = lo)
                 \o OrderByParent(SelectSeq(rows, LAMBDA r : r.parent_id # lo))

\* A sequence without the repeats of its elements.
RECURSIVE Distinct(_)
Distinct(seq) ==
    IF seq = <<>> THEN <<>>
    ELSE LET rest == Distinct(SubSeq(seq, 1, Len(seq) - 1))
             x == seq[Len(seq)]
         IN  IF \E i \in 1..Len(rest) : rest[i] = x THEN rest ELSE Append(rest, x)

\* SelectRupturePlanes as a SELECT DISTINCT.
SelectRupturePlanesDistinct(plan, rupture_id) ==
    Distinct(OrderByParent(JoinFrom(plan, rupture_id, 1)))

\* cursor.fetchall() of the join query.
SelectRupturePlanes(plan, rupture_id) == OrderByParent(JoinFrom(plan, rupture_id, 1))

\* The loop over the fetched rows: a new Fault named after the parent each
\* time parent_id differs from cur_parent_id, the row's plane appended to the
\* last Fault.  cur_parent_id is {} for None and {id} for an id; `keys`
\* records the parent_id each Fault was started for.
RECURSIVE GroupRows(_, _, _, _, _)
GroupRows(rows, i, cur_parent_id, faults, keys) ==
    IF i > Len(rows) THEN [faults |-> faults, keys |-> keys]
    ELSE LET row == rows[i]
             start == {row.parent_id} # cur_parent_id
             fs == IF start
                   THEN Append(faults, Fault(row.parent_name, None, <<>>))
                   ELSE faults
             ks == IF start THEN Append(keys, row.parent_id) ELSE keys
             last == Len(fs)
         IN  GroupRows(rows, i + 1, {row.parent_id},
                       [fs EXCEPT ![last].planes = Append(@, PlaneOfRow(row))],
                       ks)

get_rupture_faults_result(plan, rupture_id) ==
    LET g == GroupRows(SelectRupturePlanes(plan, rupture_id), 1, {}, <<>>, <<>>)
    IN  [op |-> "get_rupture_faults", rupture_id |-> rupture_id,
         raised |-> NoError, value |-> g.faults, keys |-> g.keys]

get_rupture_faults(plan, rupture_id) ==
    /\ ret' = get_rupture_faults_result(plan, rupture_id)
    /\ UNCHANGED <<parent_fault, fault, fault_plane, rupture, rupture_faults, inserted>>

---------------------------------------------------------------------------------------------------------------------------------------------------
(* The specifications.  Each draws the callers' arguments from the sets the  *)
(* operations under study need, and lets the calls come in any order.       *)

\* The bulk load alone: every writer, faults of flat planes.
LoadNext ==
    \/ \E p \in LoadedParentIds, n \in ParentNames : insert_parent(p, n)
    \/ \E id \in FaultIds, p \in ParentIds, f \in FaultInputs(FaultNames, {PlaneFlat}) :
          insert_fault(id, p, f)
    \/ \E r \in LoadedRuptureIds, id \in FaultIds : add_fault_to_rupture(r, id)

SpecLoad == Init /\ [][LoadNext]_vars

\* Faults written and read back by id.
FaultNext ==
    \/ \E p \in ParentIds : insert_parent(p, "AlpineFault")
    \/ \E id \in FaultIds, p \in ParentIds, f \in FaultInputs(FaultNames, Planes) :
          insert_fault(id, p, f)
    \/ \E id \in FaultIds : get_fault(id)

SpecFault == Init /\ [][FaultNext]_vars

\* Ruptures written and read back, grouped by parent.
RuptureNext ==
    \/ \E p \in ParentIds : insert_parent(p, ParentNameOf[p])
    \/ \E id \in FaultIds, p \in ParentIds :
          \E f \in FaultInputs({"Alpine: Caswell"}, PlanesOf[id]) : insert_fault(id, p, f)
    \/ \E r \in RuptureIds, id \in FaultIds : add_fault_to_rupture(r, id)
    \/ \E plan \in JoinPlans, r \in RuptureIds : get_rupture_faults(plan, r)

SpecRupture == Init /\ [][RuptureNext]_vars

----------------------------------------------------------------------------
(* Properties of get_fault, under SpecFault. *)

\* The last call was get_fault and it returned a Fault.
GotFault == ret.op = "get_fault" /\ ret.raised = NoError

\* C1, as claimed: a get_fault that directly follows an insert_fault of the
\* same id, under a parent that was inserted and with the fault id not
\* written before, returns as many planes as were inserted, each with the
\* four original corners (the transform of the original (lat, lon, depth)
\* triples, corner by corner) and the original rake.
RoundTripExact ==
    [][(/\ ret.op = "insert_fault"
        /\ ret.before = "absent"
        /\ \E p \in parent_fault : p.parent_id = ret.parent_id
        /\ ret'.op = "get_fault"
        /\ ret'.fault_id = ret.fault_id)
       => /\ ret'.raised = NoError
          /\ Len(ret'.value.planes) = Len(inserted[ret.fault_id])
          /\ \A i \in 1..Len(inserted[ret.fault_id]) :
                /\ ret'.value.planes[i].corners
                       = wgs_depth_to_nztm(inserted[ret.fault_id][i].corners)
                /\ ret'.value.planes[i].rake = inserted[ret.fault_id][i].rake]_vars

\* The corners get_fault gives back for an inserted plane: the original
\* (lat, lon) of each corner, the depth of the first corner for the two top
\* corners and the depth of the last corner for the two bottom corners.
StoredCorners(plane) ==
    LET c == plane.corners
    IN  << <<c[1][1], c[1][2], c[1][3]>>,
           <<c[2][1], c[2][2], c[1][3]>>,
           <<c[3][1], c[3][2], c[4][3]>>,
           <<c[4][1], c[4][2], c[4][3]>> >>

\* C1, amended: get_fault returns as many planes as insert_fault was handed
\* for the id; each has the original (lat, lon) of every corner, the first
\* corner's depth on the two top corners, the last corner's depth on the two
\* bottom corners, and the original rake.  The corners are the originals
\* exactly when the plane's top edge and bottom edge are each at one depth.
RoundTripTopBottom ==
    GotFault =>
        LET sent == inserted[ret.fault_id]
            got == ret.value.planes
        IN  /\ Len(got) = Len(sent)
            /\ \A i \in 1..Len(sent) :
                  /\ got[i].corners = wgs_depth_to_nztm(StoredCorners(sent[i]))
                  /\ got[i].rake = sent[i].rake
                  /\ (/\ sent[i].corners[2][3] = sent[i].corners[1][3]
                      /\ sent[i].corners[3][3] = sent[i].corners[4][3])
                        <=> got[i].corners = wgs_depth_to_nztm(sent[i].corners)

\* A fault of a flat and a tilted plane was inserted and read back.
RoundTripWitness ==
    /\ GotFault
    /\ inserted[ret.fault_id] = <<PlaneFlat, PlaneTilted>>
    /\ Len(ret.value.planes) = 2

\* C4, as claimed: get_fault never returns a Fault when the store holds no
\* fault_plane row for the id.
NoPlanesNotFound ==
    (ret.op = "get_fault" /\ SelectPlanes(ret.fault_id) = <<>>) => ret.raised # NoError

\* C4, amended: get_fault fails exactly when the store holds no fault row for
\* the id (unpacking fetchone()'s None raises TypeError); a fault row with no
\* plane rows is returned as a Fault of that name with no planes.
NoFaultRowFails ==
    ret.op = "get_fault" =>
        /\ SelectFault(ret.fault_id) = {} <=> ret.raised = "TypeError"
        /\ SelectFault(ret.fault_id) # {} <=> ret.raised = NoError
        /\ (SelectFault(ret.fault_id) # {} /\ SelectPlanes(ret.fault_id) = <<>>)
              => /\ ret.value.planes = <<>>
                 /\ \E r \in fault : r.fault_id = ret.fault_id /\ r.name = ret.value.name

\* A fault written with no planes was read back while another fault has planes.
NoFaultRowWitness ==
    /\ GotFault
    /\ ret.value.planes = <<>>
    /\ fault_plane # <<>>

\* C6: get_fault lists the planes of the fault in the order insert_fault was
\* handed them, over all insert_fault calls for the id: the i-th plane
\* returned has the rake and the top-left corner of the i-th plane inserted.
OrderingFidelity ==
    GotFault =>
        LET sent == inserted[ret.fault_id]
            got == ret.value.planes
        IN  /\ Len(got) = Len(sent)
            /\ \A i \in 1..Len(got) :
                  /\ got[i].rake = sent[i].rake
                  /\ got[i].corners[1] = wgs_depth_to_nztm(sent[i].corners)[1]

\* Two different planes of one fault were read back, with a plane of the
\* other fault inserted between them.
OrderingWitness ==
    /\ GotFault
    /\ Len(fault_plane) = 3
    /\ fault_plane[1].fault_id = ret.fault_id
    /\ fault_plane[2].fault_id # ret.fault_id
    /\ fault_plane[3].fault_id = ret.fault_id
    /\ ret.value.planes[1].rake # ret.value.planes[2].rake

----------------------------------------------------------------------------
(* Properties of the bulk load, under SpecLoad. *)

\* seq is the first rows of longer.
IsPrefix(seq, longer) ==
    /\ Len(seq) <= Len(longer)
    /\ \A i \in 1..Len(seq) : longer[i] = seq[i]

\* C3: after insert_parent, insert_fault or add_fault_to_rupture, also when
\* the id was written before with other values, exactly one parent_fault /
\* fault / rupture row has the id and it holds the values of this call; the
\* call leaves every fault_plane and rupture_faults row that was there in
\* place, once, and adds only the rows of its own planes or its own binding.
UpsertIdempotent ==
    [][/\ ret'.op = "insert_parent" =>
            /\ {r \in parent_fault' : r.parent_id = ret'.parent_id}
                   = {[parent_id |-> ret'.parent_id, name |-> ret'.name]}
            /\ {r \in parent_fault' : r.parent_id # ret'.parent_id}
                   = {r \in parent_fault : r.parent_id # ret'.parent_id}
            /\ fault_plane' = fault_plane
            /\ rupture_faults' = rupture_faults
       /\ ret'.op = "insert_fault" =>
            /\ {r \in fault' : r.fault_id = ret'.fault_id}
                   = {[fault_id |-> ret'.fault_id, name |-> ret'.name,
                       parent_id |-> ret'.parent_id, tect_type |-> None]}
            /\ {r \in fault' : r.fault_id # ret'.fault_id}
                   = {r \in fault : r.fault_id # ret'.fault_id}
            /\ IsPrefix(fault_plane, fault_plane')
            /\ Len(fault_plane') - Len(fault_plane)
                   = Len(inserted'[ret'.fault_id]) - Len(inserted[ret'.fault_id])
            /\ \A i \in (Len(fault_plane) + 1)..Len(fault_plane') :
                  /\ fault_plane'[i].fault_id = ret'.fault_id
                  /\ \A j \in 1..(i - 1) : fault_plane'[j].id # fault_plane'[i].id
            /\ rupture_faults' = rupture_faults
       /\ ret'.op = "add_fault_to_rupture" =>
            /\ {r \in rupture' : r.rupture_id = ret'.rupture_id}
                   = {[rupture_id |-> ret'.rupture_id]}
            /\ {r \in rupture' : r.rupture_id # ret'.rupture_id}
                   = {r \in rupture : r.rupture_id # ret'.rupture_id}
            /\ rupture_faults' = Append(rupture_faults,
                                        [rupture_id |-> ret'.rupture_id,
                                         fault_id |-> ret'.fault_id])
            /\ fault_plane' = fault_plane]_vars

\* A fault that has a plane and a binding was inserted again under another
\* name or parent.
UpsertWitness ==
    /\ ret.op = "insert_fault"
    /\ ret.before = "other"
    /\ \E i \in 1..Len(fault_plane) : fault_plane[i].fault_id = ret.fault_id
    /\ \E j \in 1..Len(rupture_faults) : rupture_faults[j].fault_id = ret.fault_id
    /\ \E p \in parent_fault : p.parent_id = ret.parent_id

\* C7: every fault_plane row references a fault row, every fault row a
\* parent_fault row, every rupture_faults row a rupture row and a fault row.
ReferentialIntegrity ==
    /\ \A i \in 1..Len(fault_plane) :
          \E f \in fault : f.fault_id = fault_plane[i].fault_id
    /\ \A f \in fault : \E p \in parent_fault : p.parent_id = f.parent_id
    /\ \A j \in 1..Len(rupture_faults) :
          /\ \E r \in rupture : r.rupture_id = rupture_faults[j].rupture_id
          /\ \E f \in fault : f.fault_id = rupture_faults[j].fault_id

\* C8: an insert_fault naming a parent_id with no parent_fault row, and an
\* add_fault_to_rupture naming a fault_id with no fault row, end in an error.
DanglingWriteRaises ==
    /\ (/\ ret.op = "insert_fault"
        /\ ~ \E p \in parent_fault : p.parent_id = ret.parent_id)
          => ret.raised # NoError
    /\ (/\ ret.op = "add_fault_to_rupture"
        /\ ~ \E f \in fault : f.fault_id = ret.fault_id)
          => ret.raised # NoError

----------------------------------------------------------------------------
(* Properties of get_rupture_faults, under SpecRupture. *)

\* The last call was get_rupture_faults.
GotRupture == ret.op = "get_rupture_faults"

\* The rupture_faults rows of a rupture.
Bindings(rupture_id) ==
    {j \in 1..Len(rupture_faults) : rupture_faults[j].rupture_id = rupture_id}

\* The parent ids a fault hangs under: those of its fault row that have a
\* parent_fault row.
ParentIdsOf(fault_id) ==
    {f.parent_id : f \in SelectFault(fault_id)} \cap {p.parent_id : p \in parent_fault}

\* The parents of the bound faults of a rupture that have a plane.
BoundParents(rupture_id) ==
    UNION {ParentIdsOf(rupture_faults[j].fault_id) :
             j \in {k \in Bindings(rupture_id) :
                      SelectPlanes(rupture_faults[k].fault_id) # <<>>}}

\* The planes of all the Faults of a result, one after the other.
RECURSIVE AllPlanes(_)
AllPlanes(faults) ==
    IF faults = <<>> THEN <<>> ELSE Head(faults).planes \o AllPlanes(Tail(faults))

\* How often x is in seq.
Count(seq, x) == Cardinality({i \in 1..Len(seq) : seq[i] = x})

\* The sum of f over S.
RECURSIVE SumOver(_, _)
SumOver(S, f) ==
    IF S = {} THEN 0
    ELSE LET x == CHOOSE y \in S : TRUE IN f[x] + SumOver(S \ {x}, f)

\* The store of the scenario: parent (1, "AlpineFault"), fault 10 under
\* parent 1 with one plane of rake 90, rupture 5 bound to fault 10.
Scenario ==
    /\ parent_fault = {[parent_id |-> 1, name |-> "AlpineFault"]}
    /\ {<<f.fault_id, f.parent_id>> : f \in fault} = {<<10, 1>>}
    /\ Len(fault_plane) = 1
    /\ fault_plane[1].fault_id = 10
    /\ fault_plane[1].rake = 90
    /\ rupture_faults = <<[rupture_id |-> 5, fault_id |-> 10]>>
    /\ GotRupture
    /\ ret.rupture_id = 5

\* C2: get_rupture_faults returns one Fault per parent of the bound faults
\* that have a plane; each is named with the parent_fault row's name and holds
\* only planes of bound faults under that parent; in the scenario the result
\* is one Fault named "AlpineFault" with one plane of rake 90.
GroupedByParent ==
    GotRupture =>
        LET want == BoundParents(ret.rupture_id)
            got == ret.value
        IN  /\ Len(got) = Cardinality(want)
            /\ Len(ret.keys) = Len(got)
            /\ {ret.keys[i] : i \in 1..Len(got)} = want
            /\ \A i \in 1..Len(got) :
                  /\ \E p \in parent_fault : /\ p.parent_id = ret.keys[i]
                                              /\ p.name = got[i].name
                  /\ \A k \in 1..Len(got[i].planes) :
                        \E n \in 1..Len(fault_plane) :
                          /\ PlaneOfRow(fault_plane[n]) = got[i].planes[k]
                          /\ ret.keys[i] \in ParentIdsOf(fault_plane[n].fault_id)
                          /\ \E j \in Bindings(ret.rupture_id) :
                                rupture_faults[j].fault_id = fault_plane[n].fault_id
            /\ Scenario => /\ Len(got) = 1
                            /\ got[1].name = "AlpineFault"
                            /\ Len(got[1].planes) = 1
                            /\ got[1].planes[1].rake = 90

\* A rupture of two faults under two parents was read: two Faults, the first
\* of flat planes named "AlpineFault", the second of tilted planes named "Hope".
GroupedWitness ==
    /\ GotRupture
    /\ Len(ret.value) = 2
    /\ ret.value[1].name = "AlpineFault"
    /\ ret.value[2].name = "Hope"
    /\ ret.value[1].planes[1].rake = 90
    /\ ret.value[2].planes[1].rake = 45

\* C5: get_rupture_faults of a rupture with no rupture_faults row returns the
\* empty sequence and raises nothing.
EmptyRupture ==
    (GotRupture /\ Bindings(ret.rupture_id) = {})
        => ret.raised = NoError /\ ret.value = <<>>

\* A rupture id with no rupture row was read while the other rupture has faults.
EmptyRuptureWitness ==
    /\ GotRupture
    /\ ~ \E r \in rupture : r.rupture_id = ret.rupture_id
    /\ ret.value = <<>>
    /\ \E r \in RuptureIds : BoundParents(r) # {}

\* C9: the planes of the result are, for every rupture_faults row of the
\* rupture whose fault row and parent row exist, the planes of the bound
\* fault once more: the totals agree, and every plane value is there as often
\* as the rows holding it times the bindings of their fault.
BindingsMultiply ==
    GotRupture =>
        LET live == {j \in Bindings(ret.rupture_id) :
                       ParentIdsOf(rupture_faults[j].fault_id) # {}}
            all == AllPlanes(ret.value)
            rows == [j \in live |-> SelectPlanes(rupture_faults[j].fault_id)]
        IN  /\ Len(all) = SumOver(live, [j \in live |-> Len(rows[j])])
            /\ \A n \in 1..Len(fault_plane) :
                  LET v == PlaneOfRow(fault_plane[n])
                  IN  Count(all, v) =
                        SumOver(live, [j \in live |->
                            Cardinality({m \in 1..Len(rows[j]) :
                                           PlaneOfRow(rows[j][m]) = v})])

\* A fault with a plane was bound to the rupture twice and read.
BindingsWitness ==
    /\ GotRupture
    /\ Len(rupture_faults) = 2
    /\ rupture_faults[1] = rupture_faults[2]
    /\ rupture_faults[1].rupture_id = ret.rupture_id
    /\ Len(AllPlanes(ret.value)) = 2 * Len(SelectPlanes(rupture_faults[1].fault_id))
    /\ ret.value # <<>>

\* C10: every Fault of the result has a plane; the Faults are of different
\* parents, by ascending parent_id; every one is of a parent of a bound fault
\* that has a plane; a bound fault with no parent_fault row gives none of its
\* planes to the result.
ResultShape ==
    GotRupture =>
        LET got == ret.value
            all == AllPlanes(got)
        IN  /\ Len(ret.keys) = Len(got)
            /\ \A i \in 1..Len(got) : Len(got[i].planes) >= 1
            /\ \A i, j \in 1..Len(got) : i < j => ret.keys[i] < ret.keys[j]
            /\ \A i \in 1..Len(got) : ret.keys[i] \in BoundParents(ret.rupture_id)
            /\ \A j \in Bindings(ret.rupture_id) :
                  LET orphan == SelectPlanes(rupture_faults[j].fault_id)
                  IN  ParentIdsOf(rupture_faults[j].fault_id) = {}
                        => \A m \in 1..Len(orphan) :
                             (\A n \in 1..Len(fault_plane) :
                                 PlaneOfRow(fault_plane[n]) = PlaneOfRow(orphan[m])
                                     => fault_plane[n].fault_id = orphan[m].fault_id)
                               => Count(all, PlaneOfRow(orphan[m])) = 0

\* A rupture was read that binds a fault with planes under an inserted parent,
\* a fault with planes whose parent has no row, and the result is one Fault.
ResultShapeWitness ==
    /\ GotRupture
    /\ Len(ret.value) = 1
    /\ \E j \in Bindings(ret.rupture_id) :
          /\ ParentIdsOf(rupture_faults[j].fault_id) = {}
          /\ SelectPlanes(rupture_faults[j].fault_id) # <<>>

====
